---- MODULE Spec2Model ----
(***************************************************************************)
(* osm-downloader: the URL resolver (network.rs, construct_url), the       *)
(* retrying fetcher (network.rs, download_file / attempt_download), the    *)
(* import task (main.rs, the spawn_blocking closure; db.rs, import_data)   *)
(* and the reactor loop that coordinates them (main.rs, run_app).          *)
(*                                                                         *)
(* Strings are sequences of one-character strings, so that trimming,       *)
(* lower-casing, concatenation and suffix tests are computed and not       *)
(* assumed.  The model follows the reactor for as long as run_app runs:    *)
(* its returns (the quit keys, an error of create_dir_all) end the         *)
(* process and are not steps of the model.                                 *)
(***************************************************************************)
EXTENDS Integers, Sequences, FiniteSets, TLC

(***************************************************************************)
(* Bounds of the model.                                                    *)
(***************************************************************************)
\* Longest text typed into one of the three region fields (URL resolver runs).
MaxFieldLen == 2
\* Fetcher tasks spawned over one run of the reactor.
MaxDownloads == 2
\* Bytes a response body delivers at most; chunks are one byte long.
MaxBytes == 2
\* Pending events the channel holds (main.rs:46 builds it with 100).
ChannelCapacity == 2
\* Entries the log buffer keeps (app.rs:107 keeps 100).
LogLimit == 2
\* Key events the user sends over one run of the reactor.
MaxKeys == 2
\* Calls of add_log in a run of the log buffer alone.
MaxAppends == 4

(***************************************************************************)
(* Program constants.                                                      *)
(***************************************************************************)
\* network.rs:81  let max_retries = 3;
max_retries == 3

(***************************************************************************)
(* Strings.                                                                *)
(***************************************************************************)
\* The characters the region fields are typed from: a lower-case letter, an
\* upper-case letter and the blank.
Alphabet == {"a", "A", " "}

RECURSIVE StringsUpTo(_)
StringsUpTo(n) ==
    IF n = 0 THEN {<< >>}
    ELSE LET shorter == StringsUpTo(n - 1)
         IN  shorter \cup {Append(s, c) : s \in shorter, c \in Alphabet}

IsWhitespace(c) == c = " "

\* str::trim_start
RECURSIVE TrimStart(_)
TrimStart(s) ==
    IF s = << >> THEN << >>
    ELSE IF IsWhitespace(Head(s)) THEN TrimStart(Tail(s))
    ELSE s

\* str::trim_end
RECURSIVE TrimEnd(_)
TrimEnd(s) ==
    IF s = << >> THEN << >>
    ELSE IF IsWhitespace(s[Len(s)]) THEN TrimEnd(SubSeq(s, 1, Len(s) - 1))
    ELSE s

\* str::trim
Trim(s) == TrimEnd(TrimStart(s))

LowerChar(c) == IF c = "A" THEN "a" ELSE c

\* str::to_lowercase
ToLowercase(s) == [i \in 1..Len(s) |-> LowerChar(s[i])]

\* str::ends_with
EndsWith(s, suffix) ==
    /\ Len(suffix) <= Len(s)
    /\ SubSeq(s, Len(s) - Len(suffix) + 1, Len(s)) = suffix

\* str::contains
Contains(s, pat) ==
    \E i \in 1..(Len(s) - Len(pat) + 1) : SubSeq(s, i, i + Len(pat) - 1) = pat

\* url.split('/').last(): the text after the last '/'.
LastSegment(s) ==
    LET slashes == {i \in 1..Len(s) : s[i] = "/"}
        last == IF slashes = {} THEN 0
                ELSE CHOOSE i \in slashes : \A j \in slashes : j <= i
    IN  SubSeq(s, last + 1, Len(s))

(***************************************************************************)
(* URL resolver: network.rs, DownloadFormat::suffix and construct_url.     *)
(***************************************************************************)
DownloadFormat == {"Pbf", "Shapefile"}

SuffixPbf == <<"-","l","a","t","e","s","t",".","o","s","m",".","p","b","f">>
SuffixShapefile ==
    <<"-","l","a","t","e","s","t","-","f","r","e","e",".","s","h","p",".","z","i","p">>

suffix(format) == IF format = "Pbf" THEN SuffixPbf ELSE SuffixShapefile

base ==
    <<"h","t","t","p","s",":","/","/","d","o","w","n","l","o","a","d",".",
      "g","e","o","f","a","b","r","i","k",".","d","e">>

Slash == <<"/">>

\* construct_url without trim.
construct_url_no_trim(continent, country, region, format) ==
    LET c1 == ToLowercase(continent)
        c2 == ToLowercase(country)
        c3 == ToLowercase(region)
    IN  IF c3 = << >>
        THEN IF c2 = << >>
             THEN base \o Slash \o c1 \o suffix(format)
             ELSE base \o Slash \o c1 \o Slash \o c2 \o suffix(format)
        ELSE base \o Slash \o c1 \o Slash \o c2 \o Slash \o c3 \o suffix(format)

\* construct_url without to_lowercase.
construct_url_no_lowercase(continent, country, region, format) ==
    LET c1 == Trim(continent)
        c2 == Trim(country)
        c3 == Trim(region)
    IN  IF c3 = << >>
        THEN IF c2 = << >>
             THEN base \o Slash \o c1 \o suffix(format)
             ELSE base \o Slash \o c1 \o Slash \o c2 \o suffix(format)
        ELSE base \o Slash \o c1 \o Slash \o c2 \o Slash \o c3 \o suffix(format)

construct_url(continent, country, region, format) ==
    LET c1 == ToLowercase(Trim(continent))
        c2 == ToLowercase(Trim(country))
        c3 == ToLowercase(Trim(region))
    IN  IF c3 = << >>
        THEN IF c2 = << >>
             THEN base \o Slash \o c1 \o suffix(format)
             ELSE base \o Slash \o c1 \o Slash \o c2 \o suffix(format)
        ELSE base \o Slash \o c1 \o Slash \o c2 \o Slash \o c3 \o suffix(format)

(***************************************************************************)
(* State.                                                                  *)
(***************************************************************************)
VARIABLES
    app,        \* app.rs, struct App: the session fields the reactor owns
    chan,       \* main.rs:46, the mpsc channel: events sent and not yet received
    fetchers,   \* the tasks of main.rs:200 (tokio::spawn), by download number
    imports,    \* the tasks of main.rs:107 (spawn_blocking), by import number
    db_lock,    \* main.rs:34, the Mutex around Database: 0 free, n held by import n
    db,         \* the store: the downloads table and the imported_data relation
    keys,       \* key events the reactor has handled
    last_key,   \* what the last key event was and what the reactor did with it
    call        \* one call of a pure function, its arguments and its result

vars == <<app, chan, fetchers, imports, db_lock, db, keys, last_key, call>>

NoCall == [fn |-> "none"]

\* add_log without the eviction.
add_log_no_evict(logs, msg) == Append(logs, msg)

\* App::add_log (app.rs:105-110): push, then drop the oldest entry past the limit.
add_log(logs, msg) ==
    LET pushed == Append(logs, msg)
    IN  IF Len(pushed) > LogLimit THEN Tail(pushed) ELSE pushed

\* App::new (app.rs:68-84).
AppNew ==
    [ download_progress    |-> 0,
      is_downloading       |-> FALSE,
      last_downloaded_path |-> << >>,
      download_status_text |-> <<"Ready">>,
      sql_input            |-> "empty",
      sql_output           |-> <<"Ready to query.">>,
      logs                 |-> << >> ]

\* Database::new (db.rs:11-35): the downloads table exists and is empty in a
\* fresh store; imported_data is absent.
DatabaseNew == [downloads |-> << >>, imported_data |-> <<"absent">>]

Init ==
    /\ app = AppNew
    /\ chan = << >>
    /\ fetchers = << >>
    /\ imports = << >>
    /\ db_lock = 0
    /\ db = DatabaseNew
    /\ keys = 0
    /\ last_key = "none"
    /\ call = NoCall

(***************************************************************************)
(* The store: db.rs.                                                       *)
(***************************************************************************)
ExtOsmPbf == <<".","o","s","m",".","p","b","f">>
ExtShp == <<".","s","h","p">>
ExtZip == <<".","z","i","p">>
ExtGeojson == <<".","g","e","o","j","s","o","n">>

\* Database::record_download (db.rs:37-43); insert_ok is whether the INSERT
\* succeeds.
record_download(d, url, path, insert_ok) ==
    IF insert_ok
    THEN [d EXCEPT !.downloads = Append(@, <<url, path>>)]
    ELSE d

\* import_data as it would be if the format were tested before the table is
\* dropped.
import_data_format_first(d, file_path, file_exists, load_ok) ==
    LET dropped == [d EXCEPT !.imported_data = <<"absent">>]
        loader == IF EndsWith(file_path, ExtOsmPbf) THEN "ST_ReadOSM"
                  ELSE IF \/ Contains(file_path, ExtShp)
                          \/ EndsWith(file_path, ExtZip)
                          \/ EndsWith(file_path, ExtGeojson)
                  THEN "ST_Read"
                  ELSE "none"
    IN  IF ~file_exists
        THEN [ok |-> FALSE, err |-> "io", loader |-> "none", db |-> d]
        ELSE IF loader = "none"
        THEN [ok |-> FALSE, err |-> "unsupported", loader |-> "none", db |-> d]
        ELSE IF load_ok
        THEN [ok |-> TRUE, err |-> "none", loader |-> loader,
              db |-> [dropped EXCEPT !.imported_data = <<loader, file_path>>]]
        ELSE [ok |-> FALSE, err |-> "engine", loader |-> loader, db |-> dropped]

\* Database::import_data (db.rs:45-75).  file_exists is the outcome of
\* std::fs::metadata, load_ok the outcome of the CREATE TABLE statement.
\* The result is the Result and the store afterwards.
import_data(d, file_path, file_exists, load_ok) ==
    IF ~file_exists
    THEN [ok |-> FALSE, err |-> "io", loader |-> "none", db |-> d]
    ELSE LET dropped == [d EXCEPT !.imported_data = <<"absent">>]
         IN  IF EndsWith(file_path, ExtOsmPbf)
             THEN IF load_ok
                  THEN [ok |-> TRUE, err |-> "none", loader |-> "ST_ReadOSM",
                        db |-> [dropped EXCEPT !.imported_data = <<"ST_ReadOSM", file_path>>]]
                  ELSE [ok |-> FALSE, err |-> "engine", loader |-> "ST_ReadOSM",
                        db |-> dropped]
             ELSE IF \/ Contains(file_path, ExtShp)
                     \/ EndsWith(file_path, ExtZip)
                     \/ EndsWith(file_path, ExtGeojson)
             THEN IF load_ok
                  THEN [ok |-> TRUE, err |-> "none", loader |-> "ST_Read",
                        db |-> [dropped EXCEPT !.imported_data = <<"ST_Read", file_path>>]]
                  ELSE [ok |-> FALSE, err |-> "engine", loader |-> "ST_Read",
                        db |-> dropped]
             ELSE [ok |-> FALSE, err |-> "unsupported", loader |-> "none",
                   db |-> dropped]

\* Database::query (db.rs:77-182).  The texts the reactor can hold in its query
\* buffer: nothing, the canned preview query, or something the user typed.  The
\* preview reads imported_data and fails when the relation is absent; the
\* outcome of a typed query is the store's to decide (user_ok).
query(d, sql, user_ok) ==
    IF sql = "preview"
    THEN IF d.imported_data = <<"absent">>
         THEN [ok |-> FALSE, out |-> <<"no such table">>]
         ELSE [ok |-> TRUE, out |-> <<"rows of">> \o d.imported_data]
    ELSE IF sql = "user" /\ user_ok
    THEN [ok |-> TRUE, out |-> <<"rows">>]
    ELSE [ok |-> FALSE, out |-> <<"query error">>]

(***************************************************************************)
(* Events: network.rs:26-33, enum DownloadEvent.  The field src is the     *)
(* number of the task that sent the event; the reactor does not read it.   *)
(***************************************************************************)
Progress(src, p) == [type |-> "Progress", src |-> src, val |-> p]
Complete(src, path) == [type |-> "Complete", src |-> src, val |-> path]
Error(src, msg) == [type |-> "Error", src |-> src, val |-> msg]
ImportStarted(src) == [type |-> "ImportStarted", src |-> src, val |-> << >>]
ImportFinished(src, msg) == [type |-> "ImportFinished", src |-> src, val |-> msg]
ImportFailed(src, msg) == [type |-> "ImportFailed", src |-> src, val |-> msg]

\* Sender::send / blocking_send complete only when the channel has room.
HasRoom == Len(chan) < ChannelCapacity

(***************************************************************************)
(* The retrying fetcher: network.rs:75-150.                                *)
(***************************************************************************)
\* What one attempt can die of before or while streaming.
RequestErrors == {"network", "http", "io"}

\* response.content_length().unwrap_or(0): 0 when the server declares none.
DeclaredSizes == {0, MaxBytes}

DownloadDir == <<"d","o","w","n","l","o","a","d","s">>

\* network.rs:118-119: the file is named after the URL's last path segment.
file_path(url) == DownloadDir \o Slash \o LastSegment(url)

\* The ratio taken the wrong way round: total_size over downloaded.
percentage_inverted(downloaded, total_size) == (total_size * 100) \div downloaded

\* network.rs:131: (downloaded / total_size) * 100, in whole percent.
percentage(downloaded, total_size) == (downloaded * 100) \div total_size

\* main.rs:200-202 and network.rs:81-82: a spawned fetcher before its first
\* attempt.  attempts, mismatches, errors and completes count what the task has
\* done and sent so far.
FetcherNew(url) ==
    [ pc |-> "attempt", url |-> url, retry_count |-> 0, total_size |-> 0,
      downloaded |-> 0, result |-> "running",
      attempts |-> 0, mismatches |-> 0,
      errors |-> 0, completes |-> 0 ]

\* network.rs:87-88: attempt_download returned Err(e); retry_count += 1.  The
\* text of e is not kept: the two Error messages built from it are told apart
\* by their fixed part and the retry number.  The attempt's locals are gone.
AttemptFailed(f, e) ==
    [f EXCEPT !.pc = "send_error", !.retry_count = @ + 1,
              !.total_size = 0, !.downloaded = 0]

\* network.rs:109-123: the GET, the status check, the declared length and the
\* creation of the file.
FetchRequest(i) ==
    /\ fetchers[i].pc = "attempt"
    /\ \/ \E e \in RequestErrors :
            fetchers' = [fetchers EXCEPT
                ![i] = AttemptFailed([@ EXCEPT !.attempts = @ + 1], e)]
       \/ \E total \in DeclaredSizes :
            fetchers' = [fetchers EXCEPT
                ![i] = [@ EXCEPT !.pc = "stream", !.attempts = @ + 1,
                                 !.total_size = total, !.downloaded = 0]]
    /\ UNCHANGED <<app, chan, imports, db_lock, db, keys, last_key, call>>

\* Progress sent after every chunk without the test of total_size; what the
\* event carries when no length was declared is left at 0.
FetchChunkAlwaysProgress(i) ==
    LET f == fetchers[i]
        limit == IF f.total_size > 0 THEN f.total_size ELSE MaxBytes
    IN  /\ f.pc = "stream"
        /\ f.downloaded < limit
        /\ fetchers' = [fetchers EXCEPT ![i] = [@ EXCEPT !.downloaded = @ + 1]]
        /\ HasRoom
        /\ chan' = Append(chan,
              Progress(i, IF f.total_size > 0
                          THEN percentage(f.downloaded + 1, f.total_size)
                          ELSE 0))
        /\ UNCHANGED <<app, imports, db_lock, db, keys, last_key, call>>

\* network.rs:125-134: the next chunk arrives and is written, and for a body
\* of declared length Progress is sent, which needs room in the channel.  The
\* HTTP client frames the body by the declared length, so a body never runs
\* past it.
FetchChunk(i) ==
    LET f == fetchers[i]
        limit == IF f.total_size > 0 THEN f.total_size ELSE MaxBytes
    IN  /\ f.pc = "stream"
        /\ f.downloaded < limit
        /\ fetchers' = [fetchers EXCEPT ![i] = [@ EXCEPT !.downloaded = @ + 1]]
        /\ IF f.total_size > 0
           THEN /\ HasRoom
                /\ chan' = Append(chan,
                      Progress(i, percentage(f.downloaded + 1, f.total_size)))
           ELSE chan' = chan
        /\ UNCHANGED <<app, imports, db_lock, db, keys, last_key, call>>

\* network.rs:126, 127 and 136: the stream, the write or the flush fails.
FetchStreamError(i) ==
    /\ fetchers[i].pc = "stream"
    /\ \E e \in {"network", "io"} :
         fetchers' = [fetchers EXCEPT ![i] = AttemptFailed(@, e)]
    /\ UNCHANGED <<app, chan, imports, db_lock, db, keys, last_key, call>>

\* network.rs:125, 136-144: the stream ends short of (or past) the declared
\* length; the mismatch is reported on the channel and the attempt returns Err.
FetchSendIncomplete(i) ==
    LET f == fetchers[i]
    IN  /\ f.pc = "stream"
        /\ f.total_size > 0 /\ f.downloaded # f.total_size
        /\ HasRoom
        /\ chan' = Append(chan, Error(i, <<"Download incomplete">>))
        /\ fetchers' = [fetchers EXCEPT
              ![i] = AttemptFailed([@ EXCEPT !.errors = @ + 1,
                                             !.mismatches = @ + 1], "incomplete")]
        /\ UNCHANGED <<app, imports, db_lock, db, keys, last_key, call>>

\* Complete sent from inside the streaming loop, as soon as the declared length
\* is written, without leaving the loop.
FetchSendCompleteInLoop(i) ==
    LET f == fetchers[i]
    IN  /\ f.pc = "stream"
        /\ ~(f.total_size > 0 /\ f.downloaded # f.total_size)
        /\ f.completes = 0
        /\ HasRoom
        /\ chan' = Append(chan, Complete(i, file_path(f.url)))
        /\ fetchers' = [fetchers EXCEPT ![i] = [@ EXCEPT !.completes = @ + 1]]
        /\ UNCHANGED <<app, imports, db_lock, db, keys, last_key, call>>

\* Complete sent at the end of the stream whatever was written, without the
\* comparison with the declared length.
FetchSendCompleteUnchecked(i) ==
    LET f == fetchers[i]
    IN  /\ f.pc = "stream"
        /\ HasRoom
        /\ chan' = Append(chan, Complete(i, file_path(f.url)))
        /\ fetchers' = [fetchers EXCEPT
              ![i] = [@ EXCEPT !.pc = "done", !.result = "Ok",
                               !.total_size = 0, !.downloaded = 0,
                               !.completes = @ + 1]]
        /\ UNCHANGED <<app, imports, db_lock, db, keys, last_key, call>>

\* network.rs:125, 136-137, 146-149 and 86: the stream ends with the declared
\* length written (or none declared); Complete is sent, the attempt and
\* download_file return Ok.
FetchSendComplete(i) ==
    LET f == fetchers[i]
    IN  /\ f.pc = "stream"
        /\ ~(f.total_size > 0 /\ f.downloaded # f.total_size)
        /\ HasRoom
        /\ chan' = Append(chan, Complete(i, file_path(f.url)))
        /\ fetchers' = [fetchers EXCEPT
              ![i] = [@ EXCEPT !.pc = "done", !.result = "Ok",
                               !.total_size = 0, !.downloaded = 0,
                               !.completes = @ + 1]]
        /\ UNCHANGED <<app, imports, db_lock, db, keys, last_key, call>>

\* The Error of download_file sent as on an unbounded channel: the send
\* completes whether the channel has room or not.
FetchSendErrorUnbounded(i) ==
    LET f == fetchers[i]
    IN  /\ f.pc = "send_error"
        /\ IF f.retry_count >= max_retries
           THEN /\ chan' = Append(chan, Error(i, <<"Failed after", max_retries>>))
                /\ fetchers' = [fetchers EXCEPT
                      ![i] = [@ EXCEPT !.pc = "done", !.result = "Err",
                                       !.errors = @ + 1]]
           ELSE /\ chan' = Append(chan, Error(i, <<"Retry", f.retry_count, max_retries>>))
                /\ fetchers' = [fetchers EXCEPT
                      ![i] = [@ EXCEPT !.pc = "sleep", !.errors = @ + 1]]
        /\ UNCHANGED <<app, imports, db_lock, db, keys, last_key, call>>

\* The retry loop without the test of retry_count against max_retries: every
\* failed attempt is followed by the Retry Error and the backoff.
FetchSendErrorNoLimit(i) ==
    LET f == fetchers[i]
    IN  /\ f.pc = "send_error"
        /\ HasRoom
        /\ chan' = Append(chan, Error(i, <<"Retry", f.retry_count, max_retries>>))
        /\ fetchers' = [fetchers EXCEPT
              ![i] = [@ EXCEPT !.pc = "sleep", !.errors = @ + 1]]
        /\ UNCHANGED <<app, imports, db_lock, db, keys, last_key, call>>

\* network.rs:89-96: after a failed attempt, the final Error and Err once
\* retry_count has reached max_retries, else the Retry Error and the backoff.
FetchSendError(i) ==
    LET f == fetchers[i]
    IN  /\ f.pc = "send_error"
        /\ HasRoom
        /\ IF f.retry_count >= max_retries
           THEN /\ chan' = Append(chan, Error(i, <<"Failed after", max_retries>>))
                /\ fetchers' = [fetchers EXCEPT
                      ![i] = [@ EXCEPT !.pc = "done", !.result = "Err",
                                       !.errors = @ + 1]]
           ELSE /\ chan' = Append(chan, Error(i, <<"Retry", f.retry_count, max_retries>>))
                /\ fetchers' = [fetchers EXCEPT
                      ![i] = [@ EXCEPT !.pc = "sleep", !.errors = @ + 1]]
        /\ UNCHANGED <<app, imports, db_lock, db, keys, last_key, call>>

\* network.rs:96 and 84-85: the backoff sleep ends and the loop starts the next
\* attempt.
FetchWake(i) ==
    /\ fetchers[i].pc = "sleep"
    /\ fetchers' = [fetchers EXCEPT ![i] = [@ EXCEPT !.pc = "attempt"]]
    /\ UNCHANGED <<app, chan, imports, db_lock, db, keys, last_key, call>>

(***************************************************************************)
(* The import task: main.rs:107-120.                                       *)
(***************************************************************************)
\* main.rs:102
url_str == <<"manual_download">>

ImportNew(path) ==
    [ pc |-> "send_started", path |-> path, result |-> "none",
      started |-> 0, finished |-> 0, failed |-> 0 ]

\* The task going for the lock without having sent ImportStarted.
ImportSkipStarted(i) ==
    /\ imports[i].pc = "send_started"
    /\ imports' = [imports EXCEPT ![i] = [@ EXCEPT !.pc = "blocking_lock"]]
    /\ UNCHANGED <<app, chan, fetchers, db_lock, db, keys, last_key, call>>

\* main.rs:108: blocking_send(ImportStarted).
ImportSendStarted(i) ==
    /\ imports[i].pc = "send_started"
    /\ HasRoom
    /\ chan' = Append(chan, ImportStarted(i))
    /\ imports' = [imports EXCEPT
          ![i] = [@ EXCEPT !.pc = "blocking_lock", !.started = @ + 1]]
    /\ UNCHANGED <<app, fetchers, db_lock, db, keys, last_key, call>>

\* main.rs:109-111: blocking_lock waits until the store is free; with the
\* guard held, record_download, its result dropped, then import_data.
ImportRun(i) ==
    /\ imports[i].pc = "blocking_lock"
    /\ db_lock = 0
    /\ db_lock' = i
    /\ \E insert_ok \in BOOLEAN, file_exists \in BOOLEAN, load_ok \in BOOLEAN :
         LET recorded == record_download(db, url_str, imports[i].path, insert_ok)
             r == import_data(recorded, imports[i].path, file_exists, load_ok)
         IN  /\ db' = r.db
             /\ imports' = [imports EXCEPT
                   ![i] = [@ EXCEPT !.pc = "send_terminal",
                                    !.result = IF r.ok THEN "Ok" ELSE r.err]]
    /\ UNCHANGED <<app, chan, fetchers, keys, last_key, call>>

\* The Err arm ending the task without a word on the channel.
ImportSendTerminalSilentOnErr(i) ==
    LET t == imports[i]
    IN  /\ t.pc = "send_terminal"
        /\ HasRoom
        /\ IF t.result = "Ok"
           THEN /\ chan' = Append(chan, ImportFinished(i, <<"Import successful.">>))
                /\ imports' = [imports EXCEPT
                      ![i] = [@ EXCEPT !.pc = "drop_guard", !.finished = @ + 1]]
           ELSE /\ chan' = chan
                /\ imports' = [imports EXCEPT ![i] = [@ EXCEPT !.pc = "drop_guard"]]
        /\ UNCHANGED <<app, fetchers, db_lock, db, keys, last_key, call>>

\* main.rs:112-119: the terminal event, sent with the guard still alive.
ImportSendTerminal(i) ==
    LET t == imports[i]
    IN  /\ t.pc = "send_terminal"
        /\ HasRoom
        /\ IF t.result = "Ok"
           THEN /\ chan' = Append(chan, ImportFinished(i, <<"Import successful.">>))
                /\ imports' = [imports EXCEPT
                      ![i] = [@ EXCEPT !.pc = "drop_guard", !.finished = @ + 1]]
           ELSE /\ chan' = Append(chan, ImportFailed(i, <<t.result>>))
                /\ imports' = [imports EXCEPT
                      ![i] = [@ EXCEPT !.pc = "drop_guard", !.failed = @ + 1]]
        /\ UNCHANGED <<app, fetchers, db_lock, db, keys, last_key, call>>

\* main.rs:120: the closure ends and the guard is dropped.
ImportDropGuard(i) ==
    /\ imports[i].pc = "drop_guard"
    /\ db_lock' = 0
    /\ imports' = [imports EXCEPT ![i] = [@ EXCEPT !.pc = "done"]]
    /\ UNCHANGED <<app, chan, fetchers, db, keys, last_key, call>>

(***************************************************************************)
(* The reactor: main.rs:78-257, one action per arm of the select and per   *)
(* kind of event or key.  The text fields, the format, the focus and the   *)
(* active tab are the user's to set between any two intents, so an intent  *)
(* carries their contents as its inputs.                                   *)
(***************************************************************************)
\* What the continent field holds when Enter is pressed.
SubmitContinents == {<< >>, <<"a">>}
SubmitCountries == {<< >>}
SubmitRegions == {<< >>}
SubmitFormats == {"Pbf"}

preview_query == "preview"

\* main.rs:82-84: the tick; App::on_tick (app.rs:87) does nothing.
Tick == UNCHANGED vars

\* main.rs:87-90
HandleProgress ==
    /\ chan # << >>
    /\ Head(chan).type = "Progress"
    /\ chan' = Tail(chan)
    /\ app' = [app EXCEPT !.download_progress = Head(chan).val,
                          !.download_status_text = <<"Downloading...">>]
    /\ UNCHANGED <<fetchers, imports, db_lock, db, keys, last_key, call>>

\* The import called on the reactor in place of being spawned: the handler
\* records and imports the file itself and no task is created.
HandleCompleteInline ==
    /\ chan # << >>
    /\ Head(chan).type = "Complete"
    /\ db_lock = 0
    /\ chan' = Tail(chan)
    /\ LET path == Head(chan).val
       IN  /\ app' = [app EXCEPT
                 !.download_progress = 100,
                 !.is_downloading = FALSE,
                 !.download_status_text = <<"Saved to", LastSegment(path)>>,
                 !.last_downloaded_path = path,
                 !.logs = add_log(@, <<"Download complete", path>>)]
           /\ \E insert_ok \in BOOLEAN, file_exists \in BOOLEAN, load_ok \in BOOLEAN :
                db' = import_data(record_download(db, url_str, path, insert_ok),
                                  path, file_exists, load_ok).db
    /\ UNCHANGED <<fetchers, imports, db_lock, keys, last_key, call>>

\* main.rs:91-121: the session is marked complete and the import task spawned.
HandleComplete ==
    /\ chan # << >>
    /\ Head(chan).type = "Complete"
    /\ chan' = Tail(chan)
    /\ LET path == Head(chan).val
       IN  /\ app' = [app EXCEPT
                 !.download_progress = 100,
                 !.is_downloading = FALSE,
                 !.download_status_text = <<"Saved to", LastSegment(path)>>,
                 !.last_downloaded_path = path,
                 !.logs = add_log(@, <<"Download complete", path>>)]
           /\ imports' = Append(imports, ImportNew(path))
    /\ UNCHANGED <<fetchers, db_lock, db, keys, last_key, call>>

\* main.rs:122-124
HandleImportStarted ==
    /\ chan # << >>
    /\ Head(chan).type = "ImportStarted"
    /\ chan' = Tail(chan)
    /\ app' = [app EXCEPT !.logs = add_log(@, <<"Starting auto-import to DuckDB...">>)]
    /\ UNCHANGED <<fetchers, imports, db_lock, db, keys, last_key, call>>

\* The preview run on the store without asking for the lock at all.
HandleImportFinishedNoTryLock ==
    /\ chan # << >>
    /\ Head(chan).type = "ImportFinished"
    /\ chan' = Tail(chan)
    /\ LET logged == add_log(add_log(app.logs, Head(chan).val),
                             <<"Auto-executing preview query...">>)
           r == query(db, preview_query, TRUE)
       IN  app' = [app EXCEPT
                   !.sql_input = preview_query,
                   !.logs = logged,
                   !.sql_output = IF r.ok THEN r.out
                                  ELSE <<"Error executing preview">> \o r.out]
    /\ UNCHANGED <<fetchers, imports, db_lock, db, keys, last_key, call>>

\* The preview run under lock().await in place of try_lock: the handler
\* goes on only once the store is free.
HandleImportFinishedBlocking ==
    /\ chan # << >>
    /\ Head(chan).type = "ImportFinished"
    /\ db_lock = 0
    /\ chan' = Tail(chan)
    /\ LET logged == add_log(add_log(app.logs, Head(chan).val),
                             <<"Auto-executing preview query...">>)
           r == query(db, preview_query, TRUE)
       IN  app' = [app EXCEPT
                   !.sql_input = preview_query,
                   !.logs = logged,
                   !.sql_output = IF r.ok THEN r.out
                                  ELSE <<"Error executing preview">> \o r.out]
    /\ UNCHANGED <<fetchers, imports, db_lock, db, keys, last_key, call>>

\* main.rs:125-145: the preview query is put in the buffer and run if try_lock
\* gets the store; the guard lives only inside the handler.
HandleImportFinished ==
    /\ chan # << >>
    /\ Head(chan).type = "ImportFinished"
    /\ chan' = Tail(chan)
    /\ LET logged == add_log(add_log(app.logs, Head(chan).val),
                             <<"Auto-executing preview query...">>)
           r == query(db, preview_query, TRUE)
       IN  IF db_lock = 0
           THEN app' = [app EXCEPT
                   !.sql_input = preview_query,
                   !.logs = logged,
                   !.sql_output = IF r.ok THEN r.out
                                  ELSE <<"Error executing preview">> \o r.out]
           ELSE app' = [app EXCEPT
                   !.sql_input = preview_query,
                   !.logs = add_log(logged, <<"DB busy, skip preview.">>)]
    /\ UNCHANGED <<fetchers, imports, db_lock, db, keys, last_key, call>>

\* main.rs:146-148
HandleImportFailed ==
    /\ chan # << >>
    /\ Head(chan).type = "ImportFailed"
    /\ chan' = Tail(chan)
    /\ app' = [app EXCEPT !.logs = add_log(@, <<"Import failed">> \o Head(chan).val)]
    /\ UNCHANGED <<fetchers, imports, db_lock, db, keys, last_key, call>>

\* main.rs:149-153
HandleError ==
    /\ chan # << >>
    /\ Head(chan).type = "Error"
    /\ chan' = Tail(chan)
    /\ app' = [app EXCEPT
          !.is_downloading = FALSE,
          !.download_status_text = <<"Error">> \o Head(chan).val,
          !.logs = add_log(@, <<"Download error">> \o Head(chan).val)]
    /\ UNCHANGED <<fetchers, imports, db_lock, db, keys, last_key, call>>

\* Enter handled without the test of is_downloading (main.rs:177).
KeyEnterDownloadUnguarded(continent, country, region, format) ==
    /\ keys < MaxKeys
    /\ keys' = keys + 1
    /\ last_key' = "enter: started"
    /\ Len(fetchers) < MaxDownloads
    /\ LET url == construct_url(continent, country, region, format)
       IN  /\ app' = [app EXCEPT
                 !.is_downloading = TRUE,
                 !.download_progress = 0,
                 !.download_status_text = <<"Starting...">>,
                 !.logs = add_log(add_log(@, <<"Requesting", continent, country, region>>),
                                  <<"URL", url>>)]
           /\ fetchers' = Append(fetchers, FetcherNew(url))
    /\ UNCHANGED <<chan, imports, db_lock, db, call>>

\* Enter handled without the test of the continent field (main.rs:182).
KeyEnterDownloadNoValidation(continent, country, region, format) ==
    /\ keys < MaxKeys
    /\ keys' = keys + 1
    /\ IF app.is_downloading
       THEN /\ last_key' = "enter: ignored"
            /\ UNCHANGED <<app, chan, fetchers, imports, db_lock, db, call>>
       ELSE /\ Len(fetchers) < MaxDownloads
            /\ last_key' = "enter: started"
            /\ LET url == construct_url(continent, country, region, format)
               IN  /\ app' = [app EXCEPT
                         !.is_downloading = TRUE,
                         !.download_progress = 0,
                         !.download_status_text = <<"Starting...">>,
                         !.logs = add_log(add_log(@, <<"Requesting", continent, country, region>>),
                                          <<"URL", url>>)]
                   /\ fetchers' = Append(fetchers, FetcherNew(url))
            /\ UNCHANGED <<chan, imports, db_lock, db, call>>

\* main.rs:175-205: Enter on the Download tab.
KeyEnterDownload(continent, country, region, format) ==
    /\ keys < MaxKeys
    /\ keys' = keys + 1
    /\ IF app.is_downloading
       THEN /\ last_key' = "enter: ignored"
            /\ UNCHANGED <<app, chan, fetchers, imports, db_lock, db, call>>
       ELSE IF continent = << >>
       THEN /\ last_key' = "enter: rejected"
            /\ app' = [app EXCEPT
                  !.logs = add_log(@, <<"Error: Continent is required">>)]
            /\ UNCHANGED <<chan, fetchers, imports, db_lock, db, call>>
       ELSE /\ Len(fetchers) < MaxDownloads
            /\ last_key' = "enter: started"
            /\ LET url == construct_url(continent, country, region, format)
               IN  /\ app' = [app EXCEPT
                         !.is_downloading = TRUE,
                         !.download_progress = 0,
                         !.download_status_text = <<"Starting...">>,
                         !.logs = add_log(add_log(@, <<"Requesting", continent, country, region>>),
                                          <<"URL", url>>)]
                   /\ fetchers' = Append(fetchers, FetcherNew(url))
            /\ UNCHANGED <<chan, imports, db_lock, db, call>>

\* The query run on the store without asking for the lock at all.
ExecuteQueryNoTryLock(user_ok) ==
    /\ keys < MaxKeys
    /\ keys' = keys + 1
    /\ LET sql == app.sql_input
           logged == add_log(app.logs, <<"Executing", sql>>)
           r == query(db, sql, user_ok)
       IN  /\ last_key' = "query: run"
           /\ app' = [app EXCEPT
                 !.logs = logged,
                 !.sql_output = IF r.ok THEN r.out ELSE <<"Error">> \o r.out]
    /\ UNCHANGED <<chan, fetchers, imports, db_lock, db, call>>

\* main.rs:234-246: the execute-query keys on the Database tab.
ExecuteQuery(user_ok) ==
    /\ keys < MaxKeys
    /\ keys' = keys + 1
    /\ LET sql == app.sql_input
           logged == add_log(app.logs, <<"Executing", sql>>)
           r == query(db, sql, user_ok)
       IN  IF db_lock = 0
           THEN /\ last_key' = "query: run"
                /\ app' = [app EXCEPT
                      !.logs = logged,
                      !.sql_output = IF r.ok THEN r.out ELSE <<"Error">> \o r.out]
           ELSE /\ last_key' = "query: busy"
                /\ app' = [app EXCEPT
                      !.logs = logged,
                      !.sql_output = <<"DB busy, cannot execute query.">>]
    /\ UNCHANGED <<chan, fetchers, imports, db_lock, db, call>>

\* main.rs:247-249: any other key on the Database tab edits the query buffer.
SqlInputKey ==
    /\ keys < MaxKeys
    /\ keys' = keys + 1
    /\ last_key' = "edit"
    /\ app' = [app EXCEPT !.sql_input = "user"]
    /\ UNCHANGED <<chan, fetchers, imports, db_lock, db, call>>

Reactor ==
    \/ Tick
    \/ HandleProgress
    \/ HandleComplete
    \/ HandleImportStarted
    \/ HandleImportFinished
    \/ HandleImportFailed
    \/ HandleError
    \/ \E continent \in SubmitContinents, country \in SubmitCountries,
          region \in SubmitRegions, format \in SubmitFormats :
         KeyEnterDownload(continent, country, region, format)
    \/ \E user_ok \in BOOLEAN : ExecuteQuery(user_ok)
    \/ SqlInputKey

Fetcher(i) ==
    \/ FetchRequest(i)
    \/ FetchChunk(i)
    \/ FetchStreamError(i)
    \/ FetchSendIncomplete(i)
    \/ FetchSendComplete(i)
    \/ FetchSendError(i)
    \/ FetchWake(i)

Import(i) ==
    \/ ImportSendStarted(i)
    \/ ImportRun(i)
    \/ ImportSendTerminal(i)
    \/ ImportDropGuard(i)

Next ==
    \/ Reactor
    \/ \E i \in 1..Len(fetchers) : Fetcher(i)
    \/ \E i \in 1..Len(imports) : Import(i)

Spec == Init /\ [][Next]_vars

\* main.rs:85-154: the reactor takes the next event off the channel.
ReceiveEvent ==
    \/ HandleProgress
    \/ HandleComplete
    \/ HandleImportStarted
    \/ HandleImportFinished
    \/ HandleImportFailed
    \/ HandleError

(***************************************************************************)
(* Runs of the background tasks with the keyboard left alone, under the    *)
(* runtime's scheduling.  They start where Enter has just started the      *)
(* first download (main.rs:177-203).                                       *)
(***************************************************************************)
InitFetch ==
    LET url == construct_url(<<"a">>, << >>, << >>, "Pbf")
    IN  /\ app = [AppNew EXCEPT
                    !.is_downloading = TRUE,
                    !.download_progress = 0,
                    !.download_status_text = <<"Starting...">>,
                    !.logs = add_log(add_log(@, <<"Requesting", <<"a">>, << >>, << >>>>),
                                     <<"URL", url>>)]
        /\ chan = << >>
        /\ fetchers = << FetcherNew(url) >>
        /\ imports = << >>
        /\ db_lock = 0
        /\ db = DatabaseNew
        /\ keys = 1
        /\ last_key = "enter: started"
        /\ call = NoCall

NextFetch ==
    \/ ReceiveEvent
    \/ \E i \in 1..Len(fetchers) : Fetcher(i)
    \/ \E i \in 1..Len(imports) : Import(i)

\* A spawned fetcher whose pending await can complete is resumed in the end
\* (tokio::spawn, main.rs:200), and the select of main.rs:81 takes a pending
\* event in the end.
FetcherStep(i) == i \in 1..Len(fetchers) /\ Fetcher(i)

SpecFetch ==
    /\ InitFetch
    /\ [][NextFetch]_vars
    /\ WF_vars(ReceiveEvent)
    /\ WF_vars(FetcherStep(1))

(***************************************************************************)
(* Runs of the import tasks with the keyboard left alone, under the        *)
(* runtime's scheduling.  They start where two downloads have completed    *)
(* and the reactor has yet to receive either Complete: Enter started       *)
(* download 1, its first attempt failed on the network, the reactor        *)
(* handled Error("Retry 1/3"), Enter started download 2, and then both     *)
(* downloads got a body of no declared length and sent Complete.           *)
(***************************************************************************)
InitImports ==
    LET url == construct_url(<<"a">>, << >>, << >>, "Pbf")
        requested(logs) ==
            add_log(add_log(logs, <<"Requesting", <<"a">>, << >>, << >>>>),
                    <<"URL", url>>)
        retry == <<"Retry", 1, max_retries>>
        returned == [FetcherNew(url) EXCEPT !.pc = "done", !.result = "Ok",
                                            !.attempts = 1, !.completes = 1]
    IN  /\ app = [AppNew EXCEPT
                    !.is_downloading = TRUE,
                    !.download_progress = 0,
                    !.download_status_text = <<"Starting...">>,
                    !.logs = requested(add_log(requested(@),
                                               <<"Download error">> \o retry))]
        /\ chan = <<Complete(1, file_path(url)), Complete(2, file_path(url))>>
        /\ fetchers = << [returned EXCEPT !.retry_count = 1, !.attempts = 2,
                                          !.errors = 1],
                         returned >>
        /\ imports = << >>
        /\ db_lock = 0
        /\ db = DatabaseNew
        /\ keys = 2
        /\ last_key = "enter: started"
        /\ call = NoCall

\* main.rs:85-148 without the arms of the fetcher's events, none of which is
\* left to receive.
ReceiveImportEvent ==
    \/ HandleComplete
    \/ HandleImportStarted
    \/ HandleImportFinished
    \/ HandleImportFailed

NextImports ==
    \/ ReceiveImportEvent
    \/ \E i \in 1..Len(imports) : Import(i)

\* A spawn_blocking task runs on its own thread: a blocking_send that has
\* room and a blocking_lock on a free store return in the end (main.rs:107).
ImportStep(i) == i \in 1..Len(imports) /\ Import(i)

SpecImports ==
    /\ InitImports
    /\ [][NextImports]_vars
    /\ WF_vars(ReceiveImportEvent)
    /\ \A i \in 1..2 : WF_vars(ImportStep(i))

(***************************************************************************)
(* Runs of the URL resolver alone: construct_url called once on region     *)
(* fields typed from Alphabet.                                             *)
(***************************************************************************)
FieldTexts == StringsUpTo(MaxFieldLen)

InitUrl ==
    /\ app = AppNew
    /\ chan = << >>
    /\ fetchers = << >>
    /\ imports = << >>
    /\ db_lock = 0
    /\ db = DatabaseNew
    /\ keys = 0
    /\ last_key = "none"
    /\ \E continent \in FieldTexts, country \in FieldTexts,
          region \in FieldTexts, format \in DownloadFormat :
         call = [ fn |-> "construct_url", continent |-> continent,
                  country |-> country, region |-> region, format |-> format,
                  done |-> FALSE, ret |-> << >>,
                  again |-> FALSE, ret_again |-> << >> ]

\* network.rs:49-73, called as in main.rs:190.
CallConstructUrl ==
    /\ call.fn = "construct_url"
    /\ ~call.done
    /\ call' = [call EXCEPT
          !.done = TRUE,
          !.ret = construct_url(call.continent, call.country, call.region,
                                call.format)]
    /\ UNCHANGED <<app, chan, fetchers, imports, db_lock, db, keys, last_key>>

\* The same call made a second time with the same arguments.
CallConstructUrlAgain ==
    /\ call.fn = "construct_url"
    /\ call.done /\ ~call.again
    /\ call' = [call EXCEPT
          !.again = TRUE,
          !.ret_again = construct_url(call.continent, call.country, call.region,
                                      call.format)]
    /\ UNCHANGED <<app, chan, fetchers, imports, db_lock, db, keys, last_key>>

NextUrl == CallConstructUrl \/ CallConstructUrlAgain

SpecUrl == InitUrl /\ [][NextUrl]_vars

(***************************************************************************)
(* Runs of the log buffer alone: add_log called up to MaxAppends times on  *)
(* the buffer of a new App, with messages the caller picks.                *)
(***************************************************************************)
LogMessages == {"m1", "m2", "m3"}

InitLog ==
    /\ app = AppNew
    /\ chan = << >>
    /\ fetchers = << >>
    /\ imports = << >>
    /\ db_lock = 0
    /\ db = DatabaseNew
    /\ keys = 0
    /\ last_key = "none"
    /\ call = [ fn |-> "add_log", logs |-> AppNew.logs, appended |-> << >> ]

\* app.rs:105-110; appended is every message passed so far, in call order.
CallAddLog ==
    /\ call.fn = "add_log"
    /\ Len(call.appended) < MaxAppends
    /\ \E msg \in LogMessages :
         call' = [call EXCEPT !.logs = add_log(@, msg),
                              !.appended = Append(@, msg)]
    /\ UNCHANGED <<app, chan, fetchers, imports, db_lock, db, keys, last_key>>

NextLog == CallAddLog

SpecLog == InitLog /\ [][NextLog]_vars

(***************************************************************************)
(* Runs of the store's import alone: import_data called once on a store    *)
(* that holds an earlier import or none, with a path the caller picks.     *)
(***************************************************************************)
\* File names by their ending: the two the downloader writes, the other
\* endings import_data tests for, and endings it does not know.
ImportEndings ==
    { ExtOsmPbf,
      ExtShp,
      ExtZip,
      ExtGeojson,
      ExtShp \o ExtZip,
      ExtShp \o <<".","t","x","t">>,
      ExtOsmPbf \o <<".","p","a","r","t">>,
      <<".","t","x","t">> }

ImportPaths == {DownloadDir \o Slash \o <<"a">> \o e : e \in ImportEndings}

\* The store before the call: new, or holding the relation of an earlier
\* import.
StoresBefore ==
    { DatabaseNew,
      [DatabaseNew EXCEPT
          !.imported_data = <<"ST_ReadOSM", DownloadDir \o Slash \o <<"b">> \o ExtOsmPbf>>] }

InitImportData ==
    /\ app = AppNew
    /\ chan = << >>
    /\ fetchers = << >>
    /\ imports = << >>
    /\ db_lock = 0
    /\ db \in StoresBefore
    /\ keys = 0
    /\ last_key = "none"
    /\ \E path \in ImportPaths, file_exists \in BOOLEAN, load_ok \in BOOLEAN :
         call = [ fn |-> "import_data", file_path |-> path,
                  file_exists |-> file_exists, load_ok |-> load_ok,
                  before |-> db, done |-> FALSE,
                  ok |-> FALSE, err |-> "none", loader |-> "none" ]

\* db.rs:45-75, called as in main.rs:111.
CallImportData ==
    /\ call.fn = "import_data"
    /\ ~call.done
    /\ LET r == import_data(db, call.file_path, call.file_exists, call.load_ok)
       IN  /\ db' = r.db
           /\ call' = [call EXCEPT !.done = TRUE, !.ok = r.ok, !.err = r.err,
                                    !.loader = r.loader]
    /\ UNCHANGED <<app, chan, fetchers, imports, db_lock, keys, last_key>>

NextImportData == CallImportData

SpecImportData == InitImportData /\ [][NextImportData]_vars

(***************************************************************************)
(* Runs of the Download tab's Enter key alone, from program start, with    *)
(* any text in the three input fields and either format.                   *)
(***************************************************************************)
InitSubmit == Init

NextSubmit ==
    \E continent \in FieldTexts, country \in FieldTexts, region \in FieldTexts,
       format \in DownloadFormat :
         KeyEnterDownload(continent, country, region, format)

SpecSubmit == InitSubmit /\ [][NextSubmit]_vars

(***************************************************************************)
(* Properties of the fetcher.                                              *)
(***************************************************************************)
Fetchers == 1..Len(fetchers)
Imports == 1..Len(imports)

FetcherEventTypes == {"Progress", "Complete", "Error"}

\* C1: a download_file run in which k attempts fail (k < 3) and attempt k+1
\* succeeds has sent exactly k Error events and then one Complete, and has made
\* k+1 attempts.  retry_count is the number of failed attempts.
C1_FailThenSucceed ==
    \A i \in Fetchers :
        fetchers[i].result = "Ok" =>
            /\ fetchers[i].errors = fetchers[i].retry_count
            /\ fetchers[i].completes = 1
            /\ fetchers[i].attempts = fetchers[i].retry_count + 1

\* C2: a download_file run in which three attempts in a row fail has sent
\* exactly 3 Error events and no Complete, and has returned Err.
C2_ThreeFailures ==
    \A i \in Fetchers :
        (fetchers[i].pc = "done" /\ fetchers[i].retry_count = max_retries) =>
            /\ fetchers[i].result = "Err"
            /\ fetchers[i].errors = 3
            /\ fetchers[i].completes = 0

(***************************************************************************)
(* Properties of the reactor and its tasks.                                *)
(***************************************************************************)
Active(i) == fetchers[i].pc # "done"

\* C3: at most one fetcher task is active at any time; no fetcher is spawned
\* while an earlier one has not returned, its backoff sleeps included.
C3_AtMostOneFetcher ==
    Cardinality({i \in Fetchers : Active(i)}) <= 1

\* The terminal event of import i is still to be sent, or is in the channel.
ImportInFlight(i) ==
    \/ imports[i].finished + imports[i].failed = 0
    \/ \E n \in 1..Len(chan) :
         /\ chan[n].type \in {"ImportFinished", "ImportFailed"}
         /\ chan[n].src = i

SubmitDownload ==
    \E continent \in SubmitContinents, country \in SubmitCountries,
       region \in SubmitRegions, format \in SubmitFormats :
         KeyEnterDownload(continent, country, region, format)

\* Enter pressed with the continent field filled in.
SubmitFilledDownload ==
    \E continent \in SubmitContinents \ {<< >>}, country \in SubmitCountries,
       region \in SubmitRegions, format \in SubmitFormats :
         KeyEnterDownload(continent, country, region, format)

\* C4: while an import is in flight, from the handling of Complete to the
\* handling of its ImportFinished or ImportFailed, a submit-download intent
\* spawns no fetcher and leaves the session as it was.  Stated for the intents
\* that pass the required-field test.
C4_NoSubmitWhileImporting ==
    [][((\E i \in Imports : ImportInFlight(i)) /\ SubmitFilledDownload)
          => (fetchers' = fetchers /\ app' = app)]_vars

\* C5: a submit-download intent handled while is_downloading is true changes
\* no session field (progress, status text, last path, log, flag) and spawns
\* no background task.
C5_SubmitWhileDownloadingIsNoOp ==
    [][(app.is_downloading /\ SubmitDownload)
          => (app' = app /\ fetchers' = fetchers /\ imports' = imports
              /\ chan' = chan)]_vars

\* C5 happens: Enter was pressed with a download in progress and ignored.
C5_Witness ==
    /\ last_key = "enter: ignored"
    /\ app.is_downloading
    /\ Len(fetchers) = 1

\* C6: every import task sends exactly one terminal event, ImportFinished or
\* ImportFailed and never both, whatever record_download and import_data
\* return: none before import_data has returned, one from then on.
C6_OneTerminalEvent ==
    \A i \in Imports :
        LET t == imports[i]
        IN  /\ t.finished + t.failed <= 1
            /\ t.pc \in {"drop_guard", "done"} => t.finished + t.failed = 1
            /\ t.pc \in {"send_started", "blocking_lock", "send_terminal"}
                  => t.finished + t.failed = 0
            /\ t.finished = 1 => t.result = "Ok"
            /\ t.failed = 1 => t.result # "Ok"

\* C6 happens: one import has ended with ImportFailed, another with
\* ImportFinished.
C6_Witness ==
    \E i, j \in Imports :
        /\ imports[i].pc = "done" /\ imports[i].failed = 1
        /\ imports[j].pc = "done" /\ imports[j].finished = 1

\* C7: the reactor never waits for the store lock.  In every state in which an
\* import task holds it, a pending ImportFinished can be handled at once and so
\* can an execute-query intent, and the reactor goes on serving ticks, the
\* other events of import tasks and the submit intent.
C7_ReactorNeverWaitsForLock ==
    db_lock # 0 =>
        /\ (chan # << >> /\ Head(chan).type = "ImportFinished")
              => ENABLED HandleImportFinished
        /\ keys < MaxKeys => \A user_ok \in BOOLEAN : ENABLED ExecuteQuery(user_ok)
        /\ ENABLED Tick
        /\ chan # << >> =>
              /\ Head(chan).type = "ImportStarted" => ENABLED HandleImportStarted
              /\ Head(chan).type = "ImportFailed" => ENABLED HandleImportFailed
        /\ keys < MaxKeys => ENABLED SubmitDownload

\* C7 happens: the only import task sent ImportFinished and still holds the
\* lock; the reactor has handled the event and then answered a query intent.
C7_Witness ==
    /\ Len(imports) = 1
    /\ db_lock = 1
    /\ imports[1].pc = "drop_guard"
    /\ chan = << >>
    /\ app.sql_input = preview_query
    /\ last_key = "query: busy"
    /\ app.sql_output = <<"DB busy, cannot execute query.">>

\* C8: Complete is the last event a fetcher puts on the channel.  Once
\* download i has sent Complete the task has returned; while its Complete is
\* pending no event of download i is behind it; once its Complete has been
\* received no event of download i is left to receive.
EventsOf(i) ==
    {n \in 1..Len(chan) : chan[n].type \in FetcherEventTypes /\ chan[n].src = i}

C8_CompleteIsLast ==
    \A i \in Fetchers :
        fetchers[i].completes > 0 =>
            /\ fetchers[i].pc = "done"
            /\ fetchers[i].completes = 1
            /\ \A n \in EventsOf(i) :
                 chan[n].type = "Complete" => \A m \in EventsOf(i) : m <= n
            /\ (\A n \in EventsOf(i) : chan[n].type # "Complete")
                  => EventsOf(i) = {}

\* C8 happens: the reactor has received a Progress of the only download, and
\* the download's Complete is the one event left in the channel, the task
\* having returned.
C8_Witness ==
    /\ Len(fetchers) = 1
    /\ fetchers[1].pc = "done"
    /\ fetchers[1].completes = 1
    /\ app.download_status_text = <<"Downloading...">>
    /\ app.download_progress = 100
    /\ chan = <<Complete(1, file_path(fetchers[1].url))>>

(***************************************************************************)
(* Properties of the URL resolver, over SpecUrl.                           *)
(***************************************************************************)
RECURSIVE JoinPath(_)
\* The segments, each behind a '/'.
JoinPath(segments) ==
    IF segments = << >> THEN << >>
    ELSE Slash \o Head(segments) \o JoinPath(Tail(segments))

Normal(s) == ToLowercase(Trim(s))

\* C9: with each field trimmed and lower-cased, construct_url returns
\* base/continent/country/region+suffix when region is not empty, else
\* base/continent/country+suffix when country is not empty, else
\* base/continent+suffix; the suffix is -latest.osm.pbf for Pbf and
\* -latest-free.shp.zip for Shapefile.
C9_ConstructionRule ==
    call.fn = "construct_url" /\ call.done =>
        LET continent == Normal(call.continent)
            country == Normal(call.country)
            region == Normal(call.region)
            segments ==
                IF region # << >> THEN <<continent, country, region>>
                ELSE IF country # << >> THEN <<continent, country>>
                ELSE <<continent>>
            ending ==
                CASE call.format = "Pbf" ->
                       <<"-","l","a","t","e","s","t",".","o","s","m",".","p","b","f">>
                  [] call.format = "Shapefile" ->
                       <<"-","l","a","t","e","s","t","-","f","r","e","e",
                         ".","s","h","p",".","z","i","p">>
        IN  call.ret = base \o JoinPath(segments) \o ending

\* C9 happens: a call whose three fields needed trimming or lower-casing and
\* whose region is not empty has returned.
C9_Witness ==
    /\ call.fn = "construct_url" /\ call.done
    /\ call.continent = <<" ", "A">>
    /\ call.country = <<"A", " ">>
    /\ call.region = <<"a", "A">>
    /\ call.format = "Shapefile"

\* The part of the URL after the host.
UrlPath(url) == SubSeq(url, Len(base) + 1, Len(url))

\* C10: for a continent that is not empty, the URL has no empty path segment
\* (no "//" after the host), also when country is empty and region is not.
C10_NoEmptySegment ==
    (call.fn = "construct_url" /\ call.done /\ Trim(call.continent) # << >>)
        => ~Contains(UrlPath(call.ret), <<"/", "/">>)

\* C11: construct_url gives the same URL for its three fields as for the same
\* fields trimmed and lower-cased, with the same format, and a second call with
\* the same arguments returns the same URL as the first.
C11_TrimCaseInsensitive ==
    call.fn = "construct_url" /\ call.done =>
        /\ call.ret = construct_url(Normal(call.continent), Normal(call.country),
                                    Normal(call.region), call.format)
        /\ call.again => call.ret_again = call.ret

\* C11 happens: a call with blanks around and capitals in its fields has been
\* made twice and has returned the URL of the plain fields.
C11_Witness ==
    /\ call.fn = "construct_url" /\ call.again
    /\ call.continent = <<" ", "A">>
    /\ call.country = <<"A", " ">>
    /\ call.region = << >>
    /\ call.format = "Pbf"
    /\ call.ret = construct_url(<<"a">>, <<"a">>, << >>, "Pbf")

(***************************************************************************)
(* Properties of one attempt, over Spec.                                   *)
(***************************************************************************)
\* Download i puts a Complete event on the channel in this step.
SendsComplete(i) ==
    /\ Len(chan') = Len(chan) + 1
    /\ chan'[Len(chan')].type = "Complete"
    /\ chan'[Len(chan')].src = i

\* C12: an attempt whose response declared a length and whose body ends with a
\* different number of bytes written is a failed attempt: the step that ends it
\* sends no Complete and adds one to retry_count.  A step that sends Complete
\* is taken with the bytes written equal to the declared length, if one was
\* declared.
C12_MismatchIsFailure ==
    [][\A i \in Fetchers :
          LET f == fetchers[i]
              g == fetchers'[i]
          IN  /\ (SendsComplete(i) \/ g.completes > f.completes) =>
                    /\ f.pc = "stream"
                    /\ f.total_size > 0 => f.downloaded = f.total_size
              /\ ( /\ f.pc = "stream" /\ g.pc # "stream"
                   /\ f.total_size > 0 /\ f.downloaded # f.total_size ) =>
                    /\ ~SendsComplete(i)
                    /\ g.completes = f.completes
                    /\ g.result # "Ok"
                    /\ g.retry_count = f.retry_count + 1]_vars

\* C12 happens: the first attempt of download 1 ended short of the declared
\* length; it counted as a failure and the second attempt is under way with
\* no Complete sent.
C12_Witness ==
    /\ Len(fetchers) >= 1
    /\ fetchers[1].mismatches = 1
    /\ fetchers[1].retry_count = 1
    /\ fetchers[1].attempts = 2
    /\ fetchers[1].completes = 0
    /\ fetchers[1].pc = "stream"

\* Download i puts a Progress event on the channel in this step.
SendsProgress(i) ==
    /\ Len(chan') = Len(chan) + 1
    /\ chan'[Len(chan')].type = "Progress"
    /\ chan'[Len(chan')].src = i

\* Download i writes a chunk in this step.
WritesChunk(i) ==
    /\ fetchers[i].pc = "stream"
    /\ fetchers'[i].pc = "stream"
    /\ fetchers'[i].downloaded > fetchers[i].downloaded

\* C13: in an attempt whose response declared a length every chunk written is
\* followed by one Progress event, sent in the same step of the loop; in an
\* attempt with no declared length a chunk is written with nothing sent; and
\* a Progress event is sent by nothing but a chunk of a declared body.
C13_ProgressIffDeclared ==
    [][\A i \in Fetchers :
          /\ WritesChunk(i) =>
                IF fetchers[i].total_size > 0
                THEN SendsProgress(i) /\ SubSeq(chan', 1, Len(chan)) = chan
                ELSE chan' = chan
          /\ SendsProgress(i) => WritesChunk(i) /\ fetchers[i].total_size > 0]_vars

\* C13 happens: the only attempt so far got no declared length and has written
\* MaxBytes bytes; no Progress event is pending and none was ever received.
C13_Witness ==
    /\ Len(fetchers) = 1
    /\ fetchers[1].pc = "stream"
    /\ fetchers[1].attempts = 1
    /\ fetchers[1].total_size = 0
    /\ fetchers[1].downloaded = MaxBytes
    /\ chan = << >>
    /\ app.download_status_text = <<"Starting...">>
    /\ app.download_progress = 0

(***************************************************************************)
(* Properties of download_file, over SpecFetch.                            *)
(***************************************************************************)
\* The event download i puts on the channel in this step is e.
Sends(i, e) ==
    /\ Len(chan') = Len(chan) + 1
    /\ chan'[Len(chan')] = e

\* Download i puts some event on the channel in this step.
SendsAny(i) ==
    /\ Len(chan') = Len(chan) + 1
    /\ chan'[Len(chan')].src = i
    /\ chan'[Len(chan')].type \in FetcherEventTypes

\* C14, the steps: a run of download_file makes at most max_retries attempts;
\* the step in which it returns sends Complete or the final Error; once it has
\* returned (and so after a successful attempt) it starts no attempt and sends
\* nothing.
C14_Steps ==
    \A i \in Fetchers :
        LET f == fetchers[i]
            g == fetchers'[i]
        IN  /\ g.attempts <= max_retries
            /\ (f.pc # "done" /\ g.pc = "done") =>
                  \/ g.result = "Ok" /\ Sends(i, Complete(i, file_path(f.url)))
                  \/ /\ g.result = "Err" /\ g.retry_count = max_retries
                     /\ Sends(i, Error(i, <<"Failed after", max_retries>>))
            /\ f.result = "Ok" => f.pc = "done"
            /\ f.pc = "done" => g = f /\ ~SendsAny(i)

\* C14: every run of download_file returns, after at most max_retries attempts
\* and with Complete or the final Error as its last event, when every await of
\* the task that can complete does and the reactor keeps receiving.
C14_Terminates ==
    /\ [][C14_Steps]_vars
    /\ <>(fetchers[1].pc = "done")

\* C14 happens: download 1 has returned Err after max_retries attempts and its
\* final Error is the last event on the channel.
C14_Witness ==
    /\ Len(fetchers) >= 1
    /\ fetchers[1].pc = "done"
    /\ fetchers[1].result = "Err"
    /\ fetchers[1].attempts = max_retries
    /\ chan # << >>
    /\ chan[Len(chan)] = Error(1, <<"Failed after", max_retries>>)

(***************************************************************************)
(* Properties of the reactor's handlers, over Spec.                        *)
(***************************************************************************)
\* C15: a step in which the reactor handles ImportFailed or Error ends with
\* is_downloading false and with a log entry that carries the event's message
\* as the newest one, and spawns neither a fetcher nor an import task.
C15_FailureHandlers ==
    [][(HandleImportFailed \/ HandleError) =>
          /\ ~app'.is_downloading
          /\ app'.logs # << >>
          /\ EndsWith(app'.logs[Len(app'.logs)], Head(chan).val)
          /\ fetchers' = fetchers
          /\ imports' = imports]_vars

\* Enter pressed with the continent field empty.
SubmitEmptyContinent ==
    \E country \in SubmitCountries, region \in SubmitRegions,
       format \in SubmitFormats :
         KeyEnterDownload(<< >>, country, region, format)

\* C16: Enter with an empty continent field and no download in progress is
\* rejected: no fetcher (and no import task) is spawned, nothing is sent,
\* is_downloading stays false, progress, status text and every other field of
\* the session are unchanged, and the log gets the entry that says the
\* continent is required.
C16_EmptyContinentRejected ==
    [][(SubmitEmptyContinent /\ ~app.is_downloading) =>
          /\ fetchers' = fetchers
          /\ imports' = imports
          /\ chan' = chan
          /\ ~app'.is_downloading
          /\ app'.download_progress = app.download_progress
          /\ app'.download_status_text = app.download_status_text
          /\ [app' EXCEPT !.logs = app.logs] = app
          /\ app'.logs # << >>
          /\ app'.logs[Len(app'.logs)] = <<"Error: Continent is required">>]_vars

\* C16 happens: the first key of the run was Enter with an empty continent; it
\* was rejected, the session is as it started and the log holds the one entry.
C16_Witness ==
    /\ keys = 1
    /\ last_key = "enter: rejected"
    /\ fetchers = << >>
    /\ app = [AppNew EXCEPT !.logs = <<<<"Error: Continent is required">>>>]

(***************************************************************************)
(* Properties of the log buffer, over SpecLog.                             *)
(***************************************************************************)
\* The last n entries of s, all of s when it has fewer.
LastEntries(s, n) ==
    IF Len(s) <= n THEN s ELSE SubSeq(s, Len(s) - n + 1, Len(s))

\* C17: after any sequence of add_log calls the buffer holds at most LogLimit
\* entries (100 in the source), and they are the most recently appended
\* messages in append order, so that a call on a full buffer has evicted the
\* oldest entry and nothing else.
C17_LogKeepsNewest ==
    call.fn = "add_log" =>
        /\ Len(call.logs) <= LogLimit
        /\ call.logs = LastEntries(call.appended, LogLimit)

\* C17 happens: more messages than the buffer keeps were appended, the first
\* of them m1, and the buffer is full of later ones.
C17_Witness ==
    /\ call.fn = "add_log"
    /\ Len(call.appended) = MaxAppends
    /\ Len(call.logs) = LogLimit
    /\ call.appended[1] = "m1"
    /\ \A k \in 1..Len(call.logs) : call.logs[k] # "m1"

(***************************************************************************)
(* Properties of the channel and of the store lock, over Spec.             *)
(***************************************************************************)
\* C18: the channel never holds more than ChannelCapacity pending events (100
\* in the source).  While it is full no send of a fetcher or of an import task
\* completes, so the sender stays where it is until the reactor has received
\* an event; the reactor itself can receive the next event and handle a key.
C18_ChannelBounded ==
    /\ Len(chan) <= ChannelCapacity
    /\ ~HasRoom =>
          /\ ENABLED ReceiveEvent
          /\ keys < MaxKeys => ENABLED SqlInputKey
          /\ \A i \in Fetchers :
                /\ ~ENABLED FetchSendError(i)
                /\ ~ENABLED FetchSendIncomplete(i)
                /\ ~ENABLED FetchSendComplete(i)
                /\ fetchers[i].total_size > 0 => ~ENABLED FetchChunk(i)
          /\ \A i \in Imports :
                /\ ~ENABLED ImportSendStarted(i)
                /\ ~ENABLED ImportSendTerminal(i)

\* C18 happens: the channel is full while a fetcher has an Error to send and
\* an import task has its ImportStarted to send.
C18_Witness ==
    /\ Len(chan) = ChannelCapacity
    /\ \E i \in Fetchers : fetchers[i].pc = "send_error"
    /\ \E i \in Imports : imports[i].pc = "send_started"

\* Import task i is blocked in a send: its next step is a blocking_send and
\* the channel is full.
BlockedInSend(i) ==
    /\ imports[i].pc \in {"send_started", "send_terminal"}
    /\ ~HasRoom

\* C19: no task that holds the store lock is blocked in a channel send, asleep
\* or waiting for the lock a second time.  The import task is the only task
\* that keeps the lock between two steps; it does not sleep and locks once.
C19_NoLockAcrossSend ==
    \A i \in Imports :
        db_lock = i =>
            /\ ~BlockedInSend(i)
            /\ imports[i].pc # "blocking_lock"

(***************************************************************************)
(* Properties of the session's progress, over Spec.                        *)
(***************************************************************************)
\* What the session's progress may be after a step: what it was, the 0 of a
\* new download, the 100 of Complete, or the percentage of the Progress event
\* received in the step.
StoresProgress ==
    \/ app'.download_progress = app.download_progress
    \/ app'.download_progress \in {0, 100}
    \/ /\ chan # << >>
       /\ Head(chan).type = "Progress"
       /\ app'.download_progress = Head(chan).val

ImportTerminalTypes == {"ImportFinished", "ImportFailed"}

\* The places in the channel of the events of type in types sent by import i.
PlacesOf(i, types) ==
    {k \in 1..Len(chan) : chan[k].src = i /\ chan[k].type \in types}

\* C21: an import task has sent its ImportStarted before it takes the store
\* lock and before record_download and import_data run: until the event is
\* sent the task holds no lock, has no result and has sent nothing, and from
\* then on the event has been sent exactly once.  On the channel the task's
\* ImportStarted is ahead of its terminal event.
C21_StartedFirst ==
    \A i \in Imports :
        LET t == imports[i]
        IN  /\ t.pc = "send_started" =>
                  /\ t.started = 0
                  /\ db_lock # i
                  /\ t.result = "none"
                  /\ t.finished + t.failed = 0
                  /\ PlacesOf(i, ImportTerminalTypes \cup {"ImportStarted"}) = {}
            /\ t.pc # "send_started" => t.started = 1
            /\ (db_lock = i \/ t.result # "none") => t.started = 1
            /\ \A k \in PlacesOf(i, {"ImportStarted"}),
                  m \in PlacesOf(i, ImportTerminalTypes) : k < m

\* C21 happens: import 1 holds the lock, import_data has returned, and both
\* its events are pending, ImportStarted first.
C21_Witness ==
    /\ Len(imports) = 1
    /\ db_lock = 1
    /\ imports[1].pc = "drop_guard"
    /\ chan = <<ImportStarted(1), ImportFinished(1, <<"Import successful.">>)>>

(***************************************************************************)
(* Properties of import_data, over SpecImportData.                         *)
(***************************************************************************)
\* C22: for a file that exists the loader is picked by the ending of the path
\* alone: .osm.pbf goes to ST_ReadOSM; .shp, .zip and .geojson go to ST_Read;
\* every other path gets the unsupported-format error and no loader runs.
C22_RoutingBySuffix ==
    (call.fn = "import_data" /\ call.done /\ call.file_exists) =>
        IF EndsWith(call.file_path, ExtOsmPbf)
        THEN call.loader = "ST_ReadOSM"
        ELSE IF \/ EndsWith(call.file_path, ExtShp)
                \/ EndsWith(call.file_path, ExtZip)
                \/ EndsWith(call.file_path, ExtGeojson)
        THEN call.loader = "ST_Read"
        ELSE ~call.ok /\ call.err = "unsupported" /\ call.loader = "none"

(***************************************************************************)
(* Properties of the reactor's handlers of Complete, ImportFinished and    *)
(* the execute-query keys, over Spec.                                      *)
(***************************************************************************)
\* C23: a step that handles Complete(path) sets the progress to 100, records
\* path as the last downloaded path, appends the one log entry of the
\* completion, and spawns one import task for path, which has yet to take
\* its first step; the store and its lock are not touched by the reactor.
\* No other step adds or removes an import task, so the tasks spawned over a
\* run are as many as the Complete events handled.
C23_CompleteSpawnsOneImport ==
    [][/\ HandleComplete =>
            LET path == Head(chan).val
            IN  /\ app'.download_progress = 100
                /\ app'.last_downloaded_path = path
                /\ Len(app'.logs) <= Len(app.logs) + 1
                /\ app'.logs[Len(app'.logs)] = <<"Download complete", path>>
                /\ Len(imports') = Len(imports) + 1
                /\ SubSeq(imports', 1, Len(imports)) = imports
                /\ imports'[Len(imports')].path = path
                /\ imports'[Len(imports')].pc = "send_started"
                /\ db' = db
                /\ db_lock' = db_lock
                /\ fetchers' = fetchers
       /\ Len(imports') # Len(imports) => HandleComplete]_vars

\* C23 happens: the reactor has handled the Complete of the first download;
\* the session shows it and the one import task has not yet started.
C23_Witness ==
    /\ Len(fetchers) = 1
    /\ fetchers[1].completes = 1
    /\ chan = << >>
    /\ Len(imports) = 1
    /\ imports[1].pc = "send_started"
    /\ app.download_progress = 100
    /\ app.last_downloaded_path = imports[1].path
    /\ db = DatabaseNew
    /\ db_lock = 0

\* C24: a step that handles ImportFinished puts the canned preview query in
\* the query buffer and tries the lock once.  With the lock free the preview
\* runs, its rows or else its error text become the query output, and the
\* lock is free again when the step ends; with the lock held the query output
\* is left as it was and the newest log entry says the preview was skipped.
\* The store is not changed either way.
C24_ImportFinishedPreview ==
    [][HandleImportFinished =>
          /\ app'.sql_input = preview_query
          /\ db' = db
          /\ db_lock' = db_lock
          /\ IF db_lock = 0
             THEN /\ app'.sql_output =
                        IF db.imported_data = <<"absent">>
                        THEN <<"Error executing preview", "no such table">>
                        ELSE <<"rows of">> \o db.imported_data
                  /\ app'.logs[Len(app'.logs)] = <<"Auto-executing preview query...">>
             ELSE /\ app'.sql_output = app.sql_output
                  /\ app'.logs[Len(app'.logs)] = <<"DB busy, skip preview.">>]_vars

\* C24 happens: the reactor has handled ImportFinished while import 1 still
\* held the lock; the preview was skipped and the query output is the one the
\* session started with.
C24_Witness ==
    /\ Len(imports) = 1
    /\ db_lock = 1
    /\ imports[1].finished = 1
    /\ chan = << >>
    /\ app.sql_input = preview_query
    /\ app.sql_output = AppNew.sql_output
    /\ app.logs[Len(app.logs)] = <<"DB busy, skip preview.">>

\* An execute-query key is handled in this step.
ExecuteQueryIntent == \E user_ok \in BOOLEAN : ExecuteQuery(user_ok)

\* C25: a step that handles an execute-query key tries the lock once.  With
\* the lock held by an import task no query runs and the query output is the
\* store-busy message; with the lock free the query in the buffer runs and its
\* rows or else its error text become the query output.  The lock is as it was
\* when the step ends, so the reactor holds nothing in its next iteration, and
\* the store and the query buffer are unchanged.
C25_ExecuteQuery ==
    [][ExecuteQueryIntent =>
          /\ db' = db
          /\ db_lock' = db_lock
          /\ app'.sql_input = app.sql_input
          /\ app'.logs[Len(app'.logs)] = <<"Executing", app.sql_input>>
          /\ IF db_lock # 0
             THEN app'.sql_output = <<"DB busy, cannot execute query.">>
             ELSE \E user_ok \in BOOLEAN :
                    LET r == query(db, app.sql_input, user_ok)
                    IN  app'.sql_output =
                          IF r.ok THEN r.out ELSE <<"Error">> \o r.out]_vars

\* C25 happens: after an import that succeeded and released the lock, the
\* user has run the preview query left in the buffer and got its rows.
C25_Witness ==
    /\ last_key = "query: run"
    /\ db_lock = 0
    /\ db.imported_data # <<"absent">>
    /\ app.sql_input = preview_query
    /\ app.sql_output = <<"rows of">> \o db.imported_data
    /\ app.logs[Len(app.logs)] = <<"Executing", preview_query>>

\* C27: in a step that handles the ImportFinished of an import while every
\* other import task has ended, the lock is free, so that the try_lock of the
\* handler succeeds and the preview query runs: the task that sent the event
\* no longer holds the lock.
C27_PreviewNotSkippedBySender ==
    [][ ( /\ HandleImportFinished
          /\ \A j \in Imports :
                j # Head(chan).src => imports[j].pc = "done" )
        => db_lock = 0 ]_vars

(***************************************************************************)
(* Properties of import_data's failures, over SpecImportData.              *)
(***************************************************************************)
\* C28 as stated: an import_data call that fails because the format is
\* unsupported leaves the relation imported_data as it was before the call.
C28_UnsupportedKeepsRelation ==
    (call.fn = "import_data" /\ call.done /\ call.err = "unsupported")
        => db.imported_data = call.before.imported_data

\* C28, amended: the table is dropped before the format is tested, so after
\* an import_data call that fails because the format is unsupported the
\* relation imported_data is absent, whatever it was before; only the call
\* that fails reading the file's metadata leaves the store as it was.
C28_UnsupportedDropsRelation ==
    (call.fn = "import_data" /\ call.done) =>
        /\ call.err = "unsupported" => db.imported_data = <<"absent">>
        /\ call.err = "io" => db = call.before

\* C28 happens: the store held the relation of an earlier import, the call
\* failed on an unsupported format, and the relation is gone.
C28_Witness ==
    /\ call.fn = "import_data"
    /\ call.done
    /\ call.err = "unsupported"
    /\ call.before.imported_data # <<"absent">>
    /\ db.imported_data = <<"absent">>

(***************************************************************************)
(* Properties of the required-field check, over SpecSubmit.                *)
(***************************************************************************)
\* C29: a step in which Enter spawns a fetcher does so for a continent field
\* whose normalisation by construct_url (trim, lower-case) is not empty, so
\* that the URL handed to the fetcher has a continent segment.
C29_ContinentSegmentNonEmpty ==
    [][ \A continent \in FieldTexts :
          Normal(continent) = << >> =>
            ~ \E country \in FieldTexts, region \in FieldTexts,
                 format \in DownloadFormat :
                   /\ KeyEnterDownload(continent, country, region, format)
                   /\ Len(fetchers') = Len(fetchers) + 1 ]_vars

(***************************************************************************)
(* Properties of the import pipeline, over SpecImports.                    *)
(***************************************************************************)
\* The reactor has received the terminal event of import i.
TerminalReceived(i) ==
    /\ Len(imports) >= i
    /\ imports[i].finished + imports[i].failed = 1
    /\ PlacesOf(i, ImportTerminalTypes) = {}

\* Nothing is left to do: both Complete events were handled, both import
\* tasks have ended and the channel is empty.
ImportsAllDone ==
    /\ Len(imports) = 2
    /\ \A i \in Imports : imports[i].pc = "done"
    /\ chan = << >>

\* C26: when the reactor keeps receiving and every import task that can take
\* a step takes one, each Complete the reactor handles (import i spawned) is
\* followed in the end by the reactor receiving ImportFinished or ImportFailed
\* of import i; and until all is done some step is always possible, also with
\* the channel full, an import waiting for the lock and the lock holder
\* blocked in its send.
C26_ImportsReportBack ==
    /\ \A i \in 1..2 : (Len(imports) >= i) ~> TerminalReceived(i)
    /\ [](ImportsAllDone \/ ENABLED NextImports)

\* C26 happens: the channel is full, import 1 holds the lock with its
\* terminal event to send, and import 2 waits for the lock.
C26_Witness ==
    /\ Len(imports) = 2
    /\ ~HasRoom
    /\ db_lock = 1
    /\ imports[1].pc = "send_terminal"
    /\ imports[2].pc = "blocking_lock"

====
